---- MODULE Spec2Model ----
(***************************************************************************)
(* Model of plp_edmodule: promo code validation and calculation, the      *)
(* price list of an educational module, the unique_together constraints,  *)
(* the two daily notification tasks, the project enrollment check, the    *)
(* related items of a module and its duration and workload.                *)
(*                                                                         *)
(* Money is counted in hundredths (cents), percentages in hundredths of a *)
(* percent, so that Decimal arithmetic and quantize are exact integers.    *)
(***************************************************************************)
EXTENDS Integers, Sequences, FiniteSets, TLC

VARIABLES
    promo,          \* the stored PromoCode row
    today,          \* datetime.now().date(), as a day number
    now,            \* timezone.now(), as a tick
    module,         \* the stored EducationalModule row
    course_ext,     \* per Course: its CourseExtendedParameters row, if any
    sessions,       \* the stored CourseSession rows, by id
    next_session,   \* per Course: plp's Course.next_session
    participants,   \* per CourseSession: the user's Participant / EnrollmentReason
    row_order,      \* the order in which the database returns rows that sort equal
    course_rows,    \* per Course: its status and the categories of its extended parameters
    edmodules,      \* per EducationalModule: its status and the ids of its courses
    course_work,    \* per Course: its duration, workload_from and workload_to
    session_work,   \* per CourseSession: get_duration(), get_workload_from(), get_workload_to()
    closest_session,    \* per Course: what choose_closest_session returns for it
    em_enrollments,         \* EducationalModuleEnrollment rows, by primary key
    em_unsubscribes,        \* EducationalModuleUnsubscribe rows, by primary key
    em_enrollment_types,    \* EducationalModuleEnrollmentType rows, by primary key
    day,                    \* the day the periodic tasks are in
    ran,                    \* the periodic tasks that already ran today
    selected_starts,        \* per CourseSession: the days it was selected as starting
    selected_enroll_ends,   \* per CourseSession: the days it was selected as closing
    result          \* the last call and what it returned

promoVars == <<promo, today>>
catalogVars == <<now, module, course_ext, sessions, next_session, participants, row_order,
                 course_rows, edmodules, course_work, session_work, closest_session>>
rowVars == <<em_enrollments, em_unsubscribes, em_enrollment_types>>
taskVars == <<day, ran, selected_starts, selected_enroll_ends>>
vars == <<promo, today, now, module, course_ext, sessions, next_session, participants, row_order,
          course_rows, edmodules, course_work, session_work, closest_session,
          em_enrollments, em_unsubscribes, em_enrollment_types,
          day, ran, selected_starts, selected_enroll_ends, result>>

\* Python None / SQL NULL in an integer-valued field
Null == 0 - 1

\* largest primary key of a Course and of an EducationalModule
MaxId == 2
\* promo codes are active till day 0..MaxDate; today runs one day further
MaxDate == 2
\* largest max_usage / used of a promo code
MaxUsage == 2


PRODUCTS == <<"course", "edmodule">>

\* the user whose payments and participations are stored, and AnonymousUser
User == 1
Anonymous == 0

\* user.is_authenticated, of a user that is not None
is_authenticated(user) == user # Anonymous

Ids == 1..MaxId
\* the primary keys of the stored Course rows
CourseIds == {1, 2}
\* the primary keys of the stored CourseSession rows
SessionIds == {1, 2}
Dates == 0..MaxDate
\* the primary keys of all Course rows: the courses a module is made of
\* (CourseIds) and two more that belong to other modules or to none
AllCourseIds == {1, 2, 3, 4}
\* the primary keys of the stored EducationalModule rows
ModuleIds == {1, 2, 3}

NoCall == [op |-> "none"]

(***************************************************************************)
(* PromoCode.validate                                                      *)
(***************************************************************************)
\* the 'does not belong' message names the product type that was passed
msg(product_type) ==
    IF product_type = PRODUCTS[1] THEN "not_belongs_course" ELSE "not_belongs_edmodule"

\* mutant: the usage cap tested with > instead of >=
validate_cap_off_by_one(self, product_id, product_type, now_date) ==
    IF /\ self.product_type # product_type
       /\ product_id # (IF self.product_type = PRODUCTS[2] THEN self.edmodule ELSE self.course)
    THEN [status |-> 1, message |-> msg(product_type)]
    ELSE IF self.used > self.max_usage
    THEN [status |-> 1, message |-> "used"]
    ELSE IF now_date > self.active_till
    THEN [status |-> 1, message |-> "expired"]
    ELSE [status |-> 0, message |-> "valid"]

\* mutant: the code expires on active_till itself
validate_expires_early(self, product_id, product_type, now_date) ==
    IF /\ self.product_type # product_type
       /\ product_id # (IF self.product_type = PRODUCTS[2] THEN self.edmodule ELSE self.course)
    THEN [status |-> 1, message |-> msg(product_type)]
    ELSE IF self.used >= self.max_usage
    THEN [status |-> 1, message |-> "used"]
    ELSE IF now_date >= self.active_till
    THEN [status |-> 1, message |-> "expired"]
    ELSE [status |-> 0, message |-> "valid"]

validate(self, product_id, product_type, now_date) ==
    IF /\ self.product_type = PRODUCTS[2]
       /\ ~(self.product_type = product_type)
       /\ ~(self.edmodule = product_id)
    THEN [status |-> 1, message |-> msg(product_type)]
    ELSE IF /\ self.product_type = PRODUCTS[1]
            /\ ~(self.product_type = product_type)
            /\ ~(self.course = product_id)
    THEN [status |-> 1, message |-> msg(product_type)]
    ELSE IF self.used >= self.max_usage
    THEN [status |-> 1, message |-> "used"]
    ELSE IF now_date > self.active_till
    THEN [status |-> 1, message |-> "expired"]
    ELSE [status |-> 0, message |-> "valid"]

(***************************************************************************)
(* Helpers over sequences and sets                                         *)
(***************************************************************************)
Min(a, b) == IF a < b THEN a ELSE b

Range(seq) == {seq[i] : i \in DOMAIN seq}

RECURSIVE SumSeq(_)
SumSeq(seq) == IF seq = <<>> THEN 0 ELSE Head(seq) + SumSeq(Tail(seq))

\* the sequences over S without repetition (a sorted many-to-many relation)
InjectiveSeqs(S) ==
    UNION {{q \in [1..n -> S] : \A i, j \in 1..n : i # j => q[i] # q[j]} : n \in 0..Cardinality(S)}

\* queryset.filter / queryset.exclude over a course sequence keep its order
RECURSIVE FilterSeq(_, _)
FilterSeq(seq, keep) ==
    IF seq = <<>> THEN <<>>
    ELSE IF Head(seq) \in keep THEN <<Head(seq)>> \o FilterSeq(Tail(seq), keep)
    ELSE FilterSeq(Tail(seq), keep)

(***************************************************************************)
(* EducationalModule.get_price_list                                        *)
(***************************************************************************)
\* EnrollmentReason rows of the user with session_enrollment_type.mode = 'verified'
IsPaid(p) == p \in {"paid", "paid_graduate"}
\* Participant.is_graduate
IsGraduate(p) == p \in {"free_graduate", "paid_graduate"}

\* ids of the courses the user paid for and either passed or is still taking
course_paid(for_user) ==
    IF for_user # Null /\ is_authenticated(for_user)
    THEN {c \in CourseIds :
            \E s \in SessionIds :
                /\ sessions[s].course = c
                /\ IsPaid(participants[s])
                /\ \/ IsGraduate(participants[s])
                   \/ /\ sessions[s].datetime_ends # Null
                      /\ sessions[s].datetime_ends > now}
    ELSE {}

\* CourseSession.objects.filter(course__in=courses.exclude(id__in=course_paid),
\*   datetime_end_enroll__isnull=False, datetime_start_enroll__lt=now)
\*   .exclude(id__in=course_paid): the second exclude compares SESSION ids
price_sessions(self, for_user) ==
    {s \in SessionIds :
        /\ sessions[s].course \in Range(self.courses) \ course_paid(for_user)
        /\ sessions[s].datetime_end_enroll # Null
        /\ sessions[s].datetime_start_enroll # Null
        /\ sessions[s].datetime_start_enroll < now
        /\ s \notin course_paid(for_user)}

\* the first session of course c in order_by('-datetime_end_enroll'); rows with
\* equal datetime_end_enroll come in the order the database picks (prefer)
session_for_course(self, for_user, c, prefer) ==
    LET cand == {s \in price_sessions(self, for_user) : sessions[s].course = c}
        best == {s \in cand : \A t \in cand :
                    sessions[t].datetime_end_enroll <= sessions[s].datetime_end_enroll}
    IN  IF cand = {} THEN Null
        ELSE CHOOSE s \in best : \A t \in best : prefer[s] <= prefer[t]

\* types.get(s.id, 0): the price of the session's verified SessionEnrollmentType
types_get(s) ==
    IF sessions[s].verified_price # Null THEN sessions[s].verified_price ELSE 0

course_price(self, for_user, c, prefer) ==
    LET s == session_for_course(self, for_user, c, prefer)
    IN  IF s # Null THEN types_get(s) ELSE 0

\* mutant: a course without a session to price is left out of the list
get_price_list_skips_unpriced(self, for_user, prefer) ==
    LET priced == FilterSeq(self.courses,
                    {c \in CourseIds : session_for_course(self, for_user, c, prefer) # Null})
        courses == [i \in DOMAIN priced |->
                        <<priced[i], course_price(self, for_user, priced[i], prefer)>>]
        price == SumSeq([i \in DOMAIN courses |-> courses[i][2]])
    IN  [courses |-> courses,
         price |-> price,
         whole_price |-> price * (100 - self.discount),
         discount |-> self.discount]

\* whole_price is a float in the code; here it is counted in hundredths
get_price_list(self, for_user, prefer) ==
    LET courses == [i \in DOMAIN self.courses |->
                        <<self.courses[i], course_price(self, for_user, self.courses[i], prefer)>>]
        price == SumSeq([i \in DOMAIN courses |-> courses[i][2]])
    IN  [courses |-> courses,
         price |-> price,
         whole_price |-> price * (100 - self.discount),
         discount |-> self.discount]

(***************************************************************************)
(* EducationalModule.get_first_session_to_buy                              *)
(***************************************************************************)
\* courses.exclude(extended_params__is_project=True): a course without a
\* CourseExtendedParameters row stays in
not_project_courses(self) ==
    FilterSeq(self.courses, {c \in CourseIds : course_ext[c] # "project"})

\* courses.filter(extended_params__is_project=False): only the courses that
\* have a CourseExtendedParameters row saying so
non_project_courses(self) ==
    FilterSeq(self.courses, {c \in CourseIds : course_ext[c] = "course"})

\* plp's CourseSession.get_verified_mode_enrollment_type: the price of the
\* session's verified enrollment type while it can be bought, else None
get_verified_mode_enrollment_type(s) ==
    IF sessions[s].verified_price # Null /\ sessions[s].verified_open
    THEN sessions[s].verified_price ELSE Null

\* plp's SessionEnrollmentType.is_user_enrolled
is_user_enrolled(s, user) == user = User /\ IsPaid(participants[s])

\* <<session, price>> of the first course the user can buy, or <<>> for None
RECURSIVE first_session_to_buy(_, _)
first_session_to_buy(courses, user) ==
    IF courses = <<>> THEN <<>>
    ELSE LET session == next_session[Head(courses)]
             enr_type == IF session # Null
                         THEN get_verified_mode_enrollment_type(session) ELSE Null
             auth == user # Null /\ is_authenticated(user)
         IN  IF session # Null /\ enr_type # Null /\ auth /\ ~is_user_enrolled(session, user)
             THEN <<session, enr_type>>
             ELSE IF session # Null /\ enr_type # Null /\ ~auth
             THEN <<session, enr_type>>
             ELSE first_session_to_buy(Tail(courses), user)

get_first_session_to_buy(self, user) ==
    first_session_to_buy(not_project_courses(self), user)

(***************************************************************************)
(* PromoCode.calculate                                                     *)
(***************************************************************************)
\* Decimal.quantize(Decimal('.00')) of v/scale hundredths, ROUND_HALF_EVEN
quantize(v, scale) ==
    LET q == v \div scale
        r == v % scale
    IN  IF 2 * r < scale THEN q
        ELSE IF 2 * r > scale THEN q + 1
        ELSE IF q % 2 = 0 THEN q ELSE q + 1

\* Python truthiness of a nullable Decimal: None and 0 are both false
truthy(d) == d # Null /\ d # 0

Raised(e) == [raised |-> e]

\* price in whole units, percentages in hundredths of a percent:
\* Decimal(price) * (1 - percent / 100), quantized to hundredths
discounted(price, percent) == quantize(price * (10000 - percent), 100)

\* mutant: with use_with_others the two discounts are applied one after the
\* other instead of being added
calculate_for_edmodule_compounds(self, edmodule, only_first_course, prefer) ==
    LET list == get_price_list(edmodule, Null, prefer)
        first == get_first_session_to_buy(edmodule, Null)
        price == IF only_first_course
                 THEN [list EXCEPT !.price = first[2],
                                   !.whole_price = first[2] * (100 - list.discount)]
                 ELSE list
    IN  IF only_first_course /\ first = <<>> THEN Raised("TypeError")
        ELSE IF self.discount_percent = Null THEN Raised("TypeError")
        ELSE IF self.use_with_others
        THEN [status |-> 0,
              new_price |-> quantize(price.whole_price * (10000 - self.discount_percent), 10000)]
        ELSE IF 100 * price.discount > self.discount_percent
        THEN [status |-> 0, new_price |-> price.whole_price]
        ELSE [status |-> 0, new_price |-> discounted(price.price, self.discount_percent)]

\* mutant: use_with_others is not looked at and the discounts are always added
calculate_for_edmodule_always_combines(self, edmodule, only_first_course, prefer) ==
    LET list == get_price_list(edmodule, Null, prefer)
        first == get_first_session_to_buy(edmodule, Null)
        price == IF only_first_course
                 THEN [list EXCEPT !.price = first[2],
                                   !.whole_price = first[2] * (100 - list.discount)]
                 ELSE list
    IN  IF only_first_course /\ first = <<>> THEN Raised("TypeError")
        ELSE IF self.discount_percent = Null THEN Raised("TypeError")
        ELSE [status |-> 0,
              new_price |-> discounted(price.price, self.discount_percent + 100 * price.discount)]

\* the price of a module that was found
calculate_for_edmodule(self, edmodule, only_first_course, prefer) ==
    LET list == get_price_list(edmodule, Null, prefer)
        first == get_first_session_to_buy(edmodule, Null)
        price == IF only_first_course
                 THEN [list EXCEPT !.price = first[2],
                                   !.whole_price = first[2] * (100 - list.discount)]
                 ELSE list
    IN  IF only_first_course /\ first = <<>> THEN Raised("TypeError")
        ELSE IF self.discount_percent = Null THEN Raised("TypeError")
        ELSE IF self.use_with_others
        THEN [status |-> 0,
              new_price |-> discounted(price.price, self.discount_percent + 100 * price.discount)]
        ELSE IF 100 * price.discount > self.discount_percent
        THEN [status |-> 0, new_price |-> price.whole_price]
        ELSE [status |-> 0, new_price |-> discounted(price.price, self.discount_percent)]

\* mutant: ObjectDoesNotExist is not caught
calculate_edmodule_lookup_raises(self, product_id, only_first_course, prefer) ==
    IF product_id # module.id
    THEN Raised("DoesNotExist")
    ELSE calculate_for_edmodule(self, module, only_first_course, prefer)

\* EducationalModule.objects.get(id=product_id) finds the stored module or
\* raises ObjectDoesNotExist, which is caught
calculate_edmodule(self, product_id, only_first_course, prefer) ==
    IF product_id # module.id
    THEN [status |-> 1, message |-> "edmodule_not_found"]
    ELSE calculate_for_edmodule(self, module, only_first_course, prefer)

calculate_course(self, session_id) ==
    IF session_id \notin SessionIds
    THEN [status |-> 1, message |-> "course_not_found"]
    ELSE
    LET verified == get_verified_mode_enrollment_type(session_id)
    IN  IF verified = Null THEN Raised("AttributeError")
        ELSE IF self.discount_percent = Null THEN Raised("TypeError")
        ELSE [status |-> 0, new_price |-> discounted(verified, self.discount_percent)]

calculate(self, product_id, only_first_course, session_id, prefer) ==
    IF truthy(self.discount_price)
    THEN [status |-> 0, new_price |-> self.discount_price]
    ELSE IF self.product_type = PRODUCTS[2]
    THEN calculate_edmodule(self, product_id, only_first_course, prefer)
    ELSE calculate_course(self, session_id)

(***************************************************************************)
(* The rows the model draws its states from                                *)
(***************************************************************************)
\* a promo code is bound to the product its product_type names
Bindings ==
    {[product_type |-> PRODUCTS[1], course |-> c, edmodule |-> Null] : c \in Ids}
    \cup {[product_type |-> PRODUCTS[2], course |-> Null, edmodule |-> m] : m \in Ids}

PromoCode(binding, active_till, max_usage, used, use_with_others, discount_percent, discount_price) ==
    [product_type |-> binding.product_type,
     course |-> binding.course,
     edmodule |-> binding.edmodule,
     active_till |-> active_till,
     max_usage |-> max_usage,
     used |-> used,
     use_with_others |-> use_with_others,
     discount_percent |-> discount_percent,
     discount_price |-> discount_price]

\* every course hidden and without categories, durations or workloads, no
\* other module, no closest session
PlainCourses ==
    /\ course_rows = [c \in AllCourseIds |-> [status |-> "hidden", categories |-> {}]]
    /\ edmodules = [m \in ModuleIds |-> [status |-> "hidden", courses |-> {}]]
    /\ course_work = [c \in CourseIds |->
                        [duration |-> Null, workload_from |-> Null, workload_to |-> Null]]
    /\ session_work = [s \in SessionIds |->
                        [duration |-> Null, workload_from |-> Null, workload_to |-> Null]]
    /\ closest_session = [c \in CourseIds |-> Null]

\* a catalogue with one empty module and sessions nobody can enroll on
EmptyCatalog ==
    /\ now = 1
    /\ module = [id |-> 1, courses |-> <<>>, discount |-> 0]
    /\ course_ext = [c \in CourseIds |-> "course"]
    /\ sessions = [s \in SessionIds |->
                    [course |-> 1, datetime_starts |-> Null,
                     datetime_start_enroll |-> Null, datetime_end_enroll |-> Null,
                     datetime_ends |-> Null, verified_price |-> Null, verified_open |-> FALSE]]
    /\ next_session = [c \in CourseIds |-> Null]
    /\ participants = [s \in SessionIds |-> "none"]
    /\ row_order = [s \in SessionIds |-> s]
    /\ PlainCourses

\* no enrollment, unsubscribe or enrollment type rows
NoRows ==
    /\ em_enrollments = <<>>
    /\ em_unsubscribes = <<>>
    /\ em_enrollment_types = <<>>

\* the periodic tasks never ran
NoRuns ==
    /\ day = 0
    /\ ran = {}
    /\ selected_starts = [s \in SessionIds |-> <<>>]
    /\ selected_enroll_ends = [s \in SessionIds |-> <<>>]

(***************************************************************************)
(* Validation of promo codes: a stored code, the days passing, and calls   *)
(* of validate for any product                                             *)
(***************************************************************************)
InitValidate ==
    /\ \E b \in Bindings, till \in Dates, max \in 0..MaxUsage, used \in 0..MaxUsage :
            promo = PromoCode(b, till, max, used, TRUE, 1000, Null)
    /\ today \in Dates
    /\ EmptyCatalog
    /\ NoRows
    /\ NoRuns
    /\ result = NoCall

Validate(product_id, product_type) ==
    /\ result' = [op |-> "validate", product_id |-> product_id, product_type |-> product_type,
                  date |-> today, ret |-> validate(promo, product_id, product_type, today)]
    /\ UNCHANGED <<promoVars, catalogVars, rowVars, taskVars>>

NextDay ==
    /\ today <= MaxDate
    /\ today' = today + 1
    /\ UNCHANGED <<promo, catalogVars, rowVars, taskVars, result>>

NextValidate ==
    \/ \E product_id \in Ids, product_type \in {PRODUCTS[1], PRODUCTS[2]} :
            Validate(product_id, product_type)
    \/ NextDay

SpecValidate == InitValidate /\ [][NextValidate]_vars

Validated == result.op = "validate"

\* the code is bound to the product validate was called for
BelongsToProduct ==
    /\ promo.product_type = result.product_type
    /\ result.product_id = (IF promo.product_type = PRODUCTS[1] THEN promo.course ELSE promo.edmodule)

\* C1: a promo code with used >= max_usage is never validated: validate
\* returns status 1 for every product and on every date
C1_UsageCap ==
    (Validated /\ promo.used >= promo.max_usage) => result.ret.status = 1

C1_Witness ==
    /\ Validated
    /\ promo.used >= promo.max_usage
    /\ BelongsToProduct
    /\ result.date <= promo.active_till
    /\ result.ret.message = "used"

\* C2: validate returns status 1 with the 'does not belong' message whenever
\* the passed product_type or the passed product_id differs from the code's,
\* and status 0 only for the product the code is bound to
C2_ForeignProductRejected ==
    Validated =>
        /\ ~BelongsToProduct =>
                /\ result.ret.status = 1
                /\ result.ret.message = msg(result.product_type)
        /\ result.ret.status = 0 => BelongsToProduct

\* C3 as stated: after active_till the answer is status 1 with the 'expired'
\* message; a code that belongs to the product and has used < max_usage is
\* valid up to and including active_till
C3_ExpiredMessageAlways ==
    Validated =>
        /\ result.date > promo.active_till =>
                (result.ret.status = 1 /\ result.ret.message = "expired")
        /\ (BelongsToProduct /\ promo.used < promo.max_usage /\ result.date <= promo.active_till)
                => result.ret.status = 0

\* C3 amended: after active_till the answer is status 1, and it carries the
\* 'expired' message when the code belongs to the product and has
\* used < max_usage (the usage check comes before the date check); a code
\* that belongs to the product and has used < max_usage is valid up to and
\* including active_till
C3_Expiry ==
    Validated =>
        /\ result.date > promo.active_till => result.ret.status = 1
        /\ (result.date > promo.active_till /\ promo.used < promo.max_usage /\ BelongsToProduct)
                => result.ret.message = "expired"
        /\ (BelongsToProduct /\ promo.used < promo.max_usage /\ result.date <= promo.active_till)
                => result.ret.status = 0

C3_Witness ==
    /\ Validated
    /\ BelongsToProduct
    /\ promo.used < promo.max_usage
    /\ result.date = promo.active_till + 1
    /\ result.ret.message = "expired"

(***************************************************************************)
(* The price list: a module over the courses, their sessions, what the     *)
(* user paid for, and calls of get_price_list                              *)
(***************************************************************************)
\* EducationalModule.discount, a percentage within its validators' range
Discounts == {0, 30, 100}

\* the price of the verified enrollment type of session s, when it has one
VerifiedPrice(s) == 100 * s + 50

\* the orders in which the database may return rows that compare equal
Preferences == {q \in [SessionIds -> SessionIds] : \A s, t \in SessionIds : s # t => q[s] # q[t]}

\* enrollment windows around now = 1: none, not yet open, open
EnrollWindows ==
    {<<Null, Null>>, <<1, 2>>, <<0, 1>>, <<0, 2>>}

\* the user's Participant of a session and the session's end: not enrolled,
\* paid and graduated, paid with the session over, running or without an end
PaidStates ==
    {<<"none", Null>>, <<"paid_graduate", 0>>, <<"paid", Null>>, <<"paid", 1>>, <<"paid", 2>>}

PricedSessions ==
    [SessionIds -> CourseIds \X EnrollWindows \X PaidStates \X BOOLEAN]

InitPrice ==
    /\ promo = PromoCode([product_type |-> PRODUCTS[2], course |-> Null, edmodule |-> 1],
                         0, 0, 0, TRUE, Null, Null)
    /\ today = 0
    /\ now = 1
    /\ \E courses \in InjectiveSeqs(CourseIds), discount \in Discounts :
            module = [id |-> 1, courses |-> courses, discount |-> discount]
    /\ course_ext = [c \in CourseIds |-> "course"]
    /\ \E w \in PricedSessions :
            /\ sessions = [s \in SessionIds |->
                    [course |-> w[s][1],
                     datetime_starts |-> Null,
                     datetime_start_enroll |-> w[s][2][1],
                     datetime_end_enroll |-> w[s][2][2],
                     datetime_ends |-> w[s][3][2],
                     verified_price |-> IF w[s][4] THEN VerifiedPrice(s) ELSE Null,
                     verified_open |-> TRUE]]
            /\ participants = [s \in SessionIds |-> w[s][3][1]]
    /\ next_session = [c \in CourseIds |-> Null]
    /\ row_order \in Preferences
    /\ PlainCourses
    /\ NoRows
    /\ NoRuns
    /\ result = NoCall

GetPriceList(for_user) ==
    /\ result' = [op |-> "get_price_list", for_user |-> for_user,
                  ret |-> get_price_list(module, for_user, row_order)]
    /\ UNCHANGED <<promoVars, catalogVars, rowVars, taskVars>>

NextPrice ==
    \E for_user \in {Null, Anonymous, User} : GetPriceList(for_user)

SpecPrice == InitPrice /\ [][NextPrice]_vars

PriceListed == result.op = "get_price_list"

\* C6: the price list has one (course, price) pair per course of the module,
\* in module order; price is the sum of the listed prices, discount the
\* module's discount, whole_price = price * (1 - discount/100), and
\* 0 <= whole_price <= price (whole_price in hundredths)
C6_PriceList ==
    PriceListed =>
        LET ret == result.ret IN
        /\ Len(ret.courses) = Len(module.courses)
        /\ \A i \in DOMAIN ret.courses : ret.courses[i][1] = module.courses[i]
        /\ ret.price = SumSeq([i \in DOMAIN ret.courses |-> ret.courses[i][2]])
        /\ ret.discount = module.discount
        /\ ret.whole_price = ret.price * (100 - module.discount)
        /\ 0 <= ret.whole_price
        /\ ret.whole_price <= 100 * ret.price

C6_Witness ==
    /\ PriceListed
    /\ Len(module.courses) = 2
    /\ module.discount = 30
    /\ result.ret.courses[1][2] > 0
    /\ result.ret.courses[2][2] > 0
    /\ result.ret.courses[1][1] > result.ret.courses[2][1]

\* the user paid for session s and passed it, or it has not ended yet
PaidAndCovered(s) ==
    /\ IsPaid(participants[s])
    /\ \/ IsGraduate(participants[s])
       \/ sessions[s].datetime_ends # Null /\ sessions[s].datetime_ends > now

\* C7: for an authenticated user a course with a paid session that the user
\* passed or that has not ended is listed at price 0, and a course whose paid
\* sessions all ended without graduation is listed at the normal price (the
\* price listed without a user)
C7_PaidCoursesFree ==
    (PriceListed /\ result.for_user = User) =>
        \A i \in DOMAIN module.courses :
            LET c == module.courses[i]
                paid == {s \in SessionIds : sessions[s].course = c /\ IsPaid(participants[s])}
            IN  /\ (\E s \in paid : PaidAndCovered(s)) => result.ret.courses[i][2] = 0
                /\ (paid # {} /\ \A s \in paid : ~PaidAndCovered(s))
                        => result.ret.courses[i][2] = course_price(module, Null, c, row_order)

(***************************************************************************)
(* Calculation: a stored promo code of either type with any discount        *)
(* fields, a module over priced sessions, and calls of calculate           *)
(***************************************************************************)
\* PromoCode.discount_percent, in hundredths of a percent
Percents == {Null, 1055, 3000}

\* PromoCode.discount_price, in hundredths
FixedPrices == {Null, 0, 9900}

\* a session's verified enrollment type: none, or one that is on sale
VerifiedTypes == {<<FALSE, FALSE>>, <<TRUE, TRUE>>}

\* Course.next_session is a session of the course, or None
NextSessions(ss) ==
    {ns \in [CourseIds -> SessionIds \cup {Null}] :
        \A c \in CourseIds : ns[c] # Null => ss[ns[c]].course = c}

InitCalculate ==
    /\ \E type \in {1, 2}, uwo \in BOOLEAN, percent \in Percents, fixed \in FixedPrices :
            promo = PromoCode([product_type |-> PRODUCTS[type],
                               course |-> IF type = 1 THEN 1 ELSE Null,
                               edmodule |-> IF type = 2 THEN 1 ELSE Null],
                              MaxDate, MaxUsage, 0, uwo, percent, fixed)
    /\ today = 0
    /\ now = 1
    /\ \E courses \in InjectiveSeqs(CourseIds), discount \in Discounts :
            module = [id |-> 1, courses |-> courses, discount |-> discount]
    /\ course_ext = [c \in CourseIds |-> "course"]
    /\ \E w \in [SessionIds -> CourseIds \X VerifiedTypes] :
            sessions = [s \in SessionIds |->
                    [course |-> w[s][1],
                     datetime_starts |-> Null,
                     datetime_start_enroll |-> 0,
                     datetime_end_enroll |-> 1 + s,
                     datetime_ends |-> Null,
                     verified_price |-> IF w[s][2][1] THEN VerifiedPrice(s) ELSE Null,
                     verified_open |-> w[s][2][2]]]
    /\ next_session \in NextSessions(sessions)
    /\ participants = [s \in SessionIds |-> "none"]
    /\ row_order = [s \in SessionIds |-> s]
    /\ PlainCourses
    /\ NoRows
    /\ NoRuns
    /\ result = NoCall

Calculate(product_id, only_first_course, session_id) ==
    /\ result' = [op |-> "calculate", product_id |-> product_id,
                  only_first_course |-> only_first_course, session_id |-> session_id,
                  ret |-> calculate(promo, product_id, only_first_course, session_id, row_order)]
    /\ UNCHANGED <<promoVars, catalogVars, rowVars, taskVars>>

NextCalculate ==
    \E product_id \in Ids \cup {Null}, only_first_course \in BOOLEAN,
       session_id \in SessionIds \cup {Null} :
        Calculate(product_id, only_first_course, session_id)

SpecCalculate == InitCalculate /\ [][NextCalculate]_vars

Calculated == result.op = "calculate"

\* the two shapes of a result: {status 0, new_price} and {status 1, message}
IsPrice(ret) == DOMAIN ret = {"status", "new_price"} /\ ret.status = 0
IsError(ret) == DOMAIN ret = {"status", "message"} /\ ret.status = 1

\* C4: a promo code whose discount_price is not null gets status 0 with
\* new_price = discount_price, whatever the arguments, the product type, the
\* discount_percent and the module's discount
C4_FixedPriceOverride ==
    (Calculated /\ promo.discount_price # Null) =>
        (IsPrice(result.ret) /\ result.ret.new_price = promo.discount_price)

\* C5: without a fixed price, an edmodule code with a product_id that names no
\* module and a course code with a session_id that names no session get
\* status 1 with a message and no new_price, and nothing is raised
C5_ProductNotFound ==
    (Calculated /\ promo.discount_price = Null) =>
        /\ (promo.product_type = PRODUCTS[2] /\ result.product_id # module.id)
                => (IsError(result.ret) /\ result.ret.message = "edmodule_not_found")
        /\ (promo.product_type = PRODUCTS[1] /\ result.session_id \notin SessionIds)
                => (IsError(result.ret) /\ result.ret.message = "course_not_found")

C5_Witness ==
    /\ Calculated
    /\ promo.discount_price = Null
    /\ promo.product_type = PRODUCTS[2]
    /\ result.product_id = Null
    /\ result.only_first_course
    /\ IsError(result.ret)

\* the module is found, the code has a discount_percent and, for
\* only_first_course, the module has a course session to buy
PercentApplies ==
    /\ Calculated
    /\ promo.product_type = PRODUCTS[2]
    /\ promo.discount_price = Null
    /\ promo.discount_percent # Null
    /\ result.product_id = module.id
    /\ result.only_first_course => get_first_session_to_buy(module, Null) # <<>>

\* the price the percentages apply to: the price of the first course session
\* to buy, or the 'price' of the module's price list
Base ==
    IF result.only_first_course
    THEN get_first_session_to_buy(module, Null)[2]
    ELSE get_price_list(module, Null, row_order).price

\* new_price, in hundredths, is x ten-thousandths rounded to two decimals
RoundedTo(new_price, x) ==
    /\ 100 * new_price - x <= 50
    /\ x - 100 * new_price <= 50

\* C13: an edmodule code without a fixed price and with use_with_others gets
\* status 0 and new_price = base * (1 - (discount_percent + module discount)
\* / 100) rounded to two decimals, base being the price of the module's
\* price list, or of the first course session to buy with only_first_course
C13_DiscountsAdded ==
    (PercentApplies /\ promo.use_with_others) =>
        /\ IsPrice(result.ret)
        /\ RoundedTo(result.ret.new_price,
                     Base * (10000 - (promo.discount_percent + 100 * module.discount)))

\* 150 at 10.55% + 30% is 89.175, stored as 89.18
C13_Witness ==
    /\ PercentApplies
    /\ promo.use_with_others
    /\ result.only_first_course
    /\ Base = 150
    /\ promo.discount_percent = 1055
    /\ module.discount = 30
    /\ result.ret.new_price = 8918

\* C14: an edmodule code without a fixed price and without use_with_others
\* gets the larger discount alone: the module's discounted whole_price when
\* the module discount is strictly greater than discount_percent, else
\* base * (1 - discount_percent / 100); either way the smaller of the two
\* single-discount prices
C14_LargerDiscountAlone ==
    (PercentApplies /\ ~promo.use_with_others) =>
        LET by_module == Base * (10000 - 100 * module.discount)
            by_promo == Base * (10000 - promo.discount_percent)
        IN  /\ IsPrice(result.ret)
            /\ 100 * module.discount > promo.discount_percent
                    => RoundedTo(result.ret.new_price, by_module)
            /\ 100 * module.discount <= promo.discount_percent
                    => RoundedTo(result.ret.new_price, by_promo)
            /\ RoundedTo(result.ret.new_price, Min(by_module, by_promo))

\* a module discount of 30% beats a code of 10.55% on a list price of 400
C14_Witness ==
    /\ PercentApplies
    /\ ~promo.use_with_others
    /\ ~result.only_first_course
    /\ Base = 400
    /\ promo.discount_percent = 1055
    /\ module.discount = 30
    /\ result.ret.new_price = 28000

\* C16: calculate always returns {status 0, new_price} or {status 1,
\* message}, for every stored code and every argument combination, and
\* never raises: also with only_first_course on a module without a course
\* session to buy, for a session without a verified enrollment type and for
\* a code without discount_price and discount_percent
C16_AlwaysAResult ==
    Calculated => (IsPrice(result.ret) \/ IsError(result.ret))

(***************************************************************************)
(* The unique_together constraints: rows are created and updated, and the  *)
(* database rejects a write that would store a second row with the same    *)
(* key, leaving the table as it was                                        *)
(***************************************************************************)
\* largest primary key of a User
MaxUser == 2
\* rows stored over the three tables together
MaxRows == 2

Users == 1..MaxUser

\* EducationalModuleEnrollmentType.EDX_MODES
EDX_MODES == {"audit", "honor", "verified"}

\* unique_together = ('user', 'module')
user_module(row) == <<row.user, row.module>>
\* unique_together = (("module", "mode"),)
module_mode(row) == <<row.module, row.mode>>

\* the unique_together keys of the stored rows, by primary key
user_module_keys(table) == [i \in DOMAIN table |-> user_module(table[i])]
module_mode_keys(table) == [i \in DOMAIN table |-> module_mode(table[i])]

\* mutant: the constraint is not declared, nothing is rejected
violates_unique_undeclared(keys, pk, k) == FALSE

\* storing key k under primary key pk violates unique_together: another row
\* already has that key
violates_unique(keys, pk, k) ==
    \E i \in DOMAIN keys : i # pk /\ keys[i] = k

\* INSERT of a row with key k: the new row gets the next primary key
insert(table, keys, row, k) ==
    IF violates_unique(keys, Len(table) + 1, k) THEN table ELSE Append(table, row)

\* UPDATE of the row with primary key pk to a row with key k
update(table, keys, pk, row, k) ==
    IF violates_unique(keys, pk, k) THEN table ELSE [table EXCEPT ![pk] = row]

outcome(keys, pk, k) ==
    IF violates_unique(keys, pk, k) THEN "IntegrityError" ELSE "saved"

StoredRows == Len(em_enrollments) + Len(em_unsubscribes) + Len(em_enrollment_types)

InitRows ==
    /\ promo = PromoCode([product_type |-> PRODUCTS[2], course |-> Null, edmodule |-> 1],
                         0, 0, 0, TRUE, Null, Null)
    /\ today = 0
    /\ EmptyCatalog
    /\ NoRows
    /\ NoRuns
    /\ result = NoCall

CreateEnrollment(user, m) ==
    LET row == [user |-> user, module |-> m, is_active |-> FALSE] IN
    /\ StoredRows < MaxRows
    /\ em_enrollments' = insert(em_enrollments, user_module_keys(em_enrollments),
                                row, user_module(row))
    /\ result' = [op |-> "create_enrollment",
                  ret |-> outcome(user_module_keys(em_enrollments),
                                  Len(em_enrollments) + 1, user_module(row))]
    /\ UNCHANGED <<promoVars, catalogVars, taskVars, em_unsubscribes, em_enrollment_types>>

UpdateEnrollment(pk, user, m) ==
    /\ pk \in DOMAIN em_enrollments
    /\ LET row == [em_enrollments[pk] EXCEPT !.user = user, !.module = m] IN
       /\ em_enrollments' = update(em_enrollments, user_module_keys(em_enrollments),
                                   pk, row, user_module(row))
       /\ result' = [op |-> "update_enrollment",
                     ret |-> outcome(user_module_keys(em_enrollments), pk, user_module(row))]
    /\ UNCHANGED <<promoVars, catalogVars, taskVars, em_unsubscribes, em_enrollment_types>>

CreateUnsubscribe(user, m) ==
    LET row == [user |-> user, module |-> m] IN
    /\ StoredRows < MaxRows
    /\ em_unsubscribes' = insert(em_unsubscribes, user_module_keys(em_unsubscribes),
                                 row, user_module(row))
    /\ result' = [op |-> "create_unsubscribe",
                  ret |-> outcome(user_module_keys(em_unsubscribes),
                                  Len(em_unsubscribes) + 1, user_module(row))]
    /\ UNCHANGED <<promoVars, catalogVars, taskVars, em_enrollments, em_enrollment_types>>

UpdateUnsubscribe(pk, user, m) ==
    /\ pk \in DOMAIN em_unsubscribes
    /\ LET row == [user |-> user, module |-> m] IN
       /\ em_unsubscribes' = update(em_unsubscribes, user_module_keys(em_unsubscribes),
                                    pk, row, user_module(row))
       /\ result' = [op |-> "update_unsubscribe",
                     ret |-> outcome(user_module_keys(em_unsubscribes), pk, user_module(row))]
    /\ UNCHANGED <<promoVars, catalogVars, taskVars, em_enrollments, em_enrollment_types>>

CreateEnrollmentType(m, mode) ==
    LET row == [module |-> m, mode |-> mode, active |-> TRUE] IN
    /\ StoredRows < MaxRows
    /\ em_enrollment_types' = insert(em_enrollment_types, module_mode_keys(em_enrollment_types),
                                     row, module_mode(row))
    /\ result' = [op |-> "create_enrollment_type",
                  ret |-> outcome(module_mode_keys(em_enrollment_types),
                                  Len(em_enrollment_types) + 1, module_mode(row))]
    /\ UNCHANGED <<promoVars, catalogVars, taskVars, em_enrollments, em_unsubscribes>>

UpdateEnrollmentType(pk, m, mode) ==
    /\ pk \in DOMAIN em_enrollment_types
    /\ LET row == [em_enrollment_types[pk] EXCEPT !.module = m, !.mode = mode] IN
       /\ em_enrollment_types' = update(em_enrollment_types, module_mode_keys(em_enrollment_types),
                                        pk, row, module_mode(row))
       /\ result' = [op |-> "update_enrollment_type",
                     ret |-> outcome(module_mode_keys(em_enrollment_types), pk, module_mode(row))]
    /\ UNCHANGED <<promoVars, catalogVars, taskVars, em_enrollments, em_unsubscribes>>

NextRows ==
    \/ \E user \in Users, m \in Ids : CreateEnrollment(user, m)
    \/ \E pk \in 1..MaxRows, user \in Users, m \in Ids : UpdateEnrollment(pk, user, m)
    \/ \E user \in Users, m \in Ids : CreateUnsubscribe(user, m)
    \/ \E pk \in 1..MaxRows, user \in Users, m \in Ids : UpdateUnsubscribe(pk, user, m)
    \/ \E m \in Ids, mode \in EDX_MODES : CreateEnrollmentType(m, mode)
    \/ \E pk \in 1..MaxRows, m \in Ids, mode \in EDX_MODES : UpdateEnrollmentType(pk, m, mode)

SpecRows == InitRows /\ [][NextRows]_vars

Unique(keys) ==
    \A i, j \in DOMAIN keys : keys[i] = keys[j] => i = j

\* C8: at most one enrollment and one unsubscribe per (user, module) and one
\* enrollment type per (module, mode) after any creates and updates, and a
\* write that is rejected as a duplicate leaves the stored rows unchanged
C8_UniqueTogether ==
    /\ [](/\ Unique(user_module_keys(em_enrollments))
          /\ Unique(user_module_keys(em_unsubscribes))
          /\ Unique(module_mode_keys(em_enrollment_types)))
    /\ [][result'.ret = "IntegrityError" => UNCHANGED rowVars]_vars

C8_Witness ==
    /\ Len(em_enrollment_types) = 2
    /\ em_enrollment_types[1].mode = "verified"
    /\ em_enrollment_types[2].mode = "verified"
    /\ result.op = "update_enrollment_type"
    /\ result.ret = "IntegrityError"

(***************************************************************************)
(* The periodic tasks: every day, some time after midnight, each of the    *)
(* two tasks runs once and selects the sessions of its day                 *)
(***************************************************************************)
\* ticks of the clock per day (the resolution of a stored datetime)
TicksPerDay == 2
\* the tasks run on the days 1..NumDays
NumDays == 3
\* timezone.timedelta(days=7)
EnrollEndsAhead == 7

\* the date of a datetime, and datetime.combine(date, time.min / time.max)
date(t) == t \div TicksPerDay
combine_min(d) == d * TicksPerDay
combine_max(d) == d * TicksPerDay + (TicksPerDay - 1)

\* mutant: the day is taken up to the next midnight, which __range includes
day_range_to_next_midnight(t) == <<combine_min(date(t)), combine_min(date(t) + 1)>>

\* the bounds of __range=(combine(t, min.time()), combine(t, max.time()))
day_range(t) == <<combine_min(date(t)), combine_max(date(t))>>

\* SQL BETWEEN: both ends included, NULL never matches
in_range(t, range) == t # Null /\ range[1] <= t /\ t <= range[2]

starting_sessions(t) ==
    {s \in SessionIds : in_range(sessions[s].datetime_starts, day_range(t))}

enroll_ending_sessions(t) ==
    {s \in SessionIds :
        in_range(sessions[s].datetime_end_enroll, day_range(t + EnrollEndsAhead * TicksPerDay))}

\* datetimes from the day before the first run to the day after the last
StartTimes == {Null} \cup (0 .. (NumDays + 2) * TicksPerDay - 1)
EndEnrollTimes ==
    {Null} \cup (EnrollEndsAhead * TicksPerDay .. (EnrollEndsAhead + NumDays + 2) * TicksPerDay - 1)

InitTasks ==
    /\ promo = PromoCode([product_type |-> PRODUCTS[2], course |-> Null, edmodule |-> 1],
                         0, 0, 0, TRUE, Null, Null)
    /\ today = 0
    /\ now = 1
    /\ module = [id |-> 1, courses |-> <<>>, discount |-> 0]
    /\ course_ext = [c \in CourseIds |-> "course"]
    /\ \E starts \in [SessionIds -> StartTimes], ends \in [SessionIds -> EndEnrollTimes] :
            sessions = [s \in SessionIds |->
                    [course |-> 1, datetime_starts |-> starts[s],
                     datetime_start_enroll |-> Null, datetime_end_enroll |-> ends[s],
                     datetime_ends |-> Null, verified_price |-> Null, verified_open |-> FALSE]]
    /\ next_session = [c \in CourseIds |-> Null]
    /\ participants = [s \in SessionIds |-> "none"]
    /\ row_order = [s \in SessionIds |-> s]
    /\ PlainCourses
    /\ NoRows
    /\ day = 1
    /\ ran = {}
    /\ selected_starts = [s \in SessionIds |-> <<>>]
    /\ selected_enroll_ends = [s \in SessionIds |-> <<>>]
    /\ result = NoCall

\* the task runs at tick `late` of the day
SendNotificationModuleCourseStarts(late) ==
    LET qs == starting_sessions(combine_min(day) + late) IN
    /\ day <= NumDays
    /\ "starts" \notin ran
    /\ selected_starts' = [s \in SessionIds |->
            IF s \in qs THEN Append(selected_starts[s], day) ELSE selected_starts[s]]
    /\ ran' = ran \cup {"starts"}
    /\ UNCHANGED <<promoVars, catalogVars, rowVars, day, selected_enroll_ends, result>>

SendNotificationModuleCourseEnrollEnds(late) ==
    LET qs == enroll_ending_sessions(combine_min(day) + late) IN
    /\ day <= NumDays
    /\ "enroll_ends" \notin ran
    /\ selected_enroll_ends' = [s \in SessionIds |->
            IF s \in qs THEN Append(selected_enroll_ends[s], day) ELSE selected_enroll_ends[s]]
    /\ ran' = ran \cup {"enroll_ends"}
    /\ UNCHANGED <<promoVars, catalogVars, rowVars, day, selected_starts, result>>

\* crontab(minute=0, hour=0): the next day begins once both tasks ran
Midnight ==
    /\ day <= NumDays
    /\ ran = {"starts", "enroll_ends"}
    /\ day' = day + 1
    /\ ran' = {}
    /\ UNCHANGED <<promoVars, catalogVars, rowVars, selected_starts, selected_enroll_ends, result>>

NextTasks ==
    \/ \E late \in 0 .. TicksPerDay - 1 : SendNotificationModuleCourseStarts(late)
    \/ \E late \in 0 .. TicksPerDay - 1 : SendNotificationModuleCourseEnrollEnds(late)
    \/ Midnight

SpecTasks == InitTasks /\ [][NextTasks]_vars

\* the task named task already ran on day d
RanOn(task, d) == d \in 1..NumDays /\ (d < day \/ (d = day /\ task \in ran))

\* C9: a session is selected by send_notification_module_course_starts exactly
\* once, by the run of the day its datetime_starts falls in, and by
\* send_notification_module_course_enroll_ends exactly once, by the run seven
\* days before the day its datetime_end_enroll falls in: once that run is
\* over the session was selected by it and by no other run, and a session
\* whose day has no run is never selected
C9_SelectedExactlyOnce ==
    \A s \in SessionIds :
        /\ selected_starts[s] =
                IF /\ sessions[s].datetime_starts # Null
                   /\ RanOn("starts", sessions[s].datetime_starts \div TicksPerDay)
                THEN <<sessions[s].datetime_starts \div TicksPerDay>> ELSE <<>>
        /\ selected_enroll_ends[s] =
                IF /\ sessions[s].datetime_end_enroll # Null
                   /\ RanOn("enroll_ends",
                            (sessions[s].datetime_end_enroll \div TicksPerDay) - EnrollEndsAhead)
                THEN <<(sessions[s].datetime_end_enroll \div TicksPerDay) - EnrollEndsAhead>>
                ELSE <<>>

C9_Witness ==
    /\ day = NumDays + 1
    /\ sessions[1].datetime_starts = combine_max(2)
    /\ sessions[2].datetime_starts = combine_min(3)
    /\ sessions[1].datetime_end_enroll = combine_max(1 + EnrollEndsAhead)
    /\ selected_starts[1] = <<2>>
    /\ selected_starts[2] = <<3>>
    /\ selected_enroll_ends[1] = <<1>>

(***************************************************************************)
(* Enrollment on the project: a module over courses with or without        *)
(* extended parameters, the user's participations and module enrollment,   *)
(* and calls of may_enroll_on_project                                      *)
(***************************************************************************)
\* Participant rows of the user with is_graduate set, in sessions of course c
graduated(c) ==
    \E s \in SessionIds :
        /\ sessions[s].course = c
        /\ participants[s] # "none"
        /\ IsGraduate(participants[s])

may_enroll_on_project(self, user) ==
    IF ~is_authenticated(user) THEN FALSE
    ELSE IF ~\E pk \in DOMAIN em_enrollments :
                /\ em_enrollments[pk].user = user
                /\ em_enrollments[pk].module = self.id
                /\ em_enrollments[pk].is_active
    THEN FALSE
    ELSE LET courses == Range(non_project_courses(self))
             passed == [c \in courses |-> graduated(c)]
         IN  \A c \in courses : passed[c]

\* a course has no CourseExtendedParameters row, or one with is_project unset or set
ExtendedParams == {"none", "course", "project"}

\* no module enrollment, or one of this or another user, module and state
ModuleEnrollments ==
    {<<>>}
    \cup {<<[user |-> u, module |-> m, is_active |-> a]>> :
            u \in {User, User + 1}, m \in {1, 2}, a \in BOOLEAN}

InitProject ==
    /\ promo = PromoCode([product_type |-> PRODUCTS[2], course |-> Null, edmodule |-> 1],
                         0, 0, 0, TRUE, Null, Null)
    /\ today = 0
    /\ now = 1
    /\ \E courses \in InjectiveSeqs(CourseIds) :
            module = [id |-> 1, courses |-> courses, discount |-> 0]
    /\ course_ext \in [CourseIds -> ExtendedParams]
    /\ \E of \in [SessionIds -> CourseIds] :
            sessions = [s \in SessionIds |->
                    [course |-> of[s], datetime_starts |-> Null,
                     datetime_start_enroll |-> Null, datetime_end_enroll |-> Null,
                     datetime_ends |-> Null, verified_price |-> Null, verified_open |-> FALSE]]
    /\ next_session = [c \in CourseIds |-> Null]
    /\ participants \in [SessionIds -> {"none", "free", "free_graduate"}]
    /\ row_order = [s \in SessionIds |-> s]
    /\ PlainCourses
    /\ em_enrollments \in ModuleEnrollments
    /\ em_unsubscribes = <<>>
    /\ em_enrollment_types = <<>>
    /\ NoRuns
    /\ result = NoCall

MayEnrollOnProject(user) ==
    /\ result' = [op |-> "may_enroll_on_project", user |-> user,
                  ret |-> may_enroll_on_project(module, user)]
    /\ UNCHANGED <<promoVars, catalogVars, rowVars, taskVars>>

NextProject ==
    \E user \in {Anonymous, User} : MayEnrollOnProject(user)

SpecProject == InitProject /\ [][NextProject]_vars

\* C10: may_enroll_on_project is True exactly when the user is authenticated,
\* has an active enrollment on the module and graduated from a session of
\* every course of the module that is not a project
C10_MayEnrollOnProject ==
    result.op = "may_enroll_on_project" =>
        (result.ret <=>
            /\ is_authenticated(result.user)
            /\ \E pk \in DOMAIN em_enrollments :
                    /\ em_enrollments[pk].user = result.user
                    /\ em_enrollments[pk].module = module.id
                    /\ em_enrollments[pk].is_active
            /\ \A c \in Range(module.courses) : course_ext[c] # "project" => graduated(c))

(***************************************************************************)
(* EducationalModule.get_related: up to two published items that share a   *)
(* category with the module, chosen at random                              *)
(***************************************************************************)
\* EducationalModule.categories: the categories of the extended parameters
\* of the module's courses. The code returns them as a list sorted by
\* frequency; get_related only tests it for emptiness and membership
categories(self) ==
    UNION {course_rows[c].categories : c \in Range(self.courses)}

\* the modules query before distinct(): one row per module, course of the
\* module and category of that course that is among cats
related_modules(self, cats) ==
    LET joined == {r \in ModuleIds \X AllCourseIds \X cats :
                        /\ r[2] \in edmodules[r[1]].courses
                        /\ r[3] \in course_rows[r[2]].categories}
    IN  {[item |-> r[1], joined |-> <<r[2], r[3]>>] :
            r \in {j \in joined : j[1] # self.id /\ edmodules[j[1]].status = "published"}}

\* the courses query before distinct(): one row per course and category of
\* the course that is among cats
related_courses(self, cats) ==
    LET joined == {r \in AllCourseIds \X cats : r[2] \in course_rows[r[1]].categories}
    IN  {[item |-> r[1], joined |-> <<r[2]>>] :
            r \in {j \in joined : /\ j[1] \notin Range(self.courses)
                                  /\ course_rows[j[1]].status = "published"}}

\* mutant: the joined rows are returned as they are
distinct_keeps_joined_rows(rows) == rows

\* QuerySet.distinct(): one row per object
distinct(rows) == {[item |-> r.item, joined |-> <<>>] : r \in rows}

\* random.sample(list(rows), k): every list of k rows taken at different
\* positions
sample(rows, k) ==
    {q \in [1..k -> rows] : \A i, j \in 1..k : i # j => q[i] # q[j]}

\* the lists get_related may return, one per random choice
get_related(self) ==
    LET cats == categories(self)
        modules == distinct(related_modules(self, cats))
        courses == distinct(related_courses(self, cats))
        ems == IF modules # {}
               THEN {<<[type |-> "em", item |-> q[1].item]>> : q \in sample(modules, 1)}
               ELSE {<<>>}
        samples == IF courses # {}
                   THEN {[i \in 1..Len(q) |-> [type |-> "course", item |-> q[i].item]] :
                            q \in sample(courses, Min(Cardinality(courses), 2))}
                   ELSE {<<>>}
    IN  IF cats = {} THEN {<<>>}
        ELSE {related \o SubSeq(smp, 1, Min(2 - Len(related), Len(smp))) :
                related \in ems, smp \in samples}

\* the categories there are
Categories == {1, 2}

\* a course is hidden or published, and its extended parameters carry any
\* set of categories (none also when the course has no extended parameters)
CourseRows ==
    {[status |-> "hidden", categories |-> {1}]}
    \cup {[status |-> "published", categories |-> cs] : cs \in SUBSET Categories}

\* another module is hidden or published and is made of some of the courses
ModuleRows ==
    {[status |-> st, courses |-> cs] :
        st \in {"hidden", "published"}, cs \in {{}, {1}, {3}, {3, 4}}}

InitRelated ==
    /\ promo = PromoCode([product_type |-> PRODUCTS[2], course |-> Null, edmodule |-> 1],
                         0, 0, 0, TRUE, Null, Null)
    /\ today = 0
    /\ now = 1
    /\ \E courses \in InjectiveSeqs(CourseIds) :
            /\ module = [id |-> 1, courses |-> courses, discount |-> 0]
            /\ \E others \in [ModuleIds \ {1} -> ModuleRows] :
                    edmodules = [m \in ModuleIds |->
                                    IF m = 1
                                    THEN [status |-> "published", courses |-> Range(courses)]
                                    ELSE others[m]]
    /\ course_rows \in [AllCourseIds -> CourseRows]
    /\ course_ext = [c \in CourseIds |-> "course"]
    /\ sessions = [s \in SessionIds |->
                    [course |-> 1, datetime_starts |-> Null,
                     datetime_start_enroll |-> Null, datetime_end_enroll |-> Null,
                     datetime_ends |-> Null, verified_price |-> Null, verified_open |-> FALSE]]
    /\ next_session = [c \in CourseIds |-> Null]
    /\ participants = [s \in SessionIds |-> "none"]
    /\ row_order = [s \in SessionIds |-> s]
    /\ course_work = [c \in CourseIds |->
                        [duration |-> Null, workload_from |-> Null, workload_to |-> Null]]
    /\ session_work = [s \in SessionIds |->
                        [duration |-> Null, workload_from |-> Null, workload_to |-> Null]]
    /\ closest_session = [c \in CourseIds |-> Null]
    /\ NoRows
    /\ NoRuns
    /\ result = NoCall

GetRelated ==
    \E related \in get_related(module) :
        /\ result' = [op |-> "get_related", ret |-> related]
        /\ UNCHANGED <<promoVars, catalogVars, rowVars, taskVars>>

NextRelated == GetRelated

SpecRelated == InitRelated /\ [][NextRelated]_vars

\* the categories of the module's courses
ModuleCategories ==
    {cat \in Categories : \E c \in Range(module.courses) : cat \in course_rows[c].categories}

\* C11: get_related returns 0..2 items, at most one of type 'em' and the
\* others of type 'course', no item twice, never the module itself nor one
\* of its courses, only published items that share a category with the
\* module, and nothing when the module has no categories
C11_Related ==
    result.op = "get_related" =>
        LET related == result.ret
            at == DOMAIN related
        IN  /\ Len(related) \in 0..2
            /\ Cardinality({i \in at : related[i].type = "em"}) <= 1
            /\ \A i \in at : related[i].type \in {"em", "course"}
            /\ \A i, j \in at : i # j => related[i] # related[j]
            /\ \A i \in at : related[i].type = "em" =>
                    /\ related[i].item # module.id
                    /\ edmodules[related[i].item].status = "published"
                    /\ \E c \in edmodules[related[i].item].courses :
                            course_rows[c].categories \cap ModuleCategories # {}
            /\ \A i \in at : related[i].type = "course" =>
                    /\ related[i].item \notin Range(module.courses)
                    /\ course_rows[related[i].item].status = "published"
                    /\ course_rows[related[i].item].categories \cap ModuleCategories # {}
            /\ ModuleCategories = {} => related = <<>>

\* a module and a course are returned together
C11_Witness ==
    /\ result.op = "get_related"
    /\ Len(result.ret) = 2
    /\ result.ret[1].type = "em"
    /\ result.ret[2].type = "course"

(***************************************************************************)
(* EducationalModule.duration, whole_work and workload                     *)
(***************************************************************************)
\* utils.choose_closest_session(c): a session, or None
choose_closest_session(c) == closest_session[c]

\* the module's courses that are not projects, each with its closest session
courses_with_closest_sessions(self) ==
    LET courses == not_project_courses(self)
    IN  [i \in 1..Len(courses) |-> <<courses[i], choose_closest_session(courses[i])>>]

\* mutant: a course without a duration is skipped instead of ending the loop
RECURSIVE duration_skipping(_, _)
duration_skipping(pairs, duration) ==
    IF pairs = <<>> THEN duration
    ELSE LET c == Head(pairs)[1]
             s == Head(pairs)[2]
             d == IF s # Null THEN session_work[s].duration ELSE course_work[c].duration
         IN  IF ~truthy(d) THEN duration_skipping(Tail(pairs), duration)
             ELSE duration_skipping(Tail(pairs), duration + d)

\* the loop of duration over the pairs that are left
RECURSIVE duration_loop(_, _)
duration_loop(pairs, duration) ==
    IF pairs = <<>> THEN duration
    ELSE LET c == Head(pairs)[1]
             s == Head(pairs)[2]
             d == IF s # Null THEN session_work[s].duration ELSE course_work[c].duration
         IN  IF ~truthy(d) THEN 0
             ELSE duration_loop(Tail(pairs), duration + d)

duration(self) ==
    duration_loop(courses_with_closest_sessions(self), 0)

Returned(v) == [value |-> v]

\* int((workload_from + workload_to) / 2) of two workloads that are not None
mean_workload(workload_from, workload_to) == (workload_from + workload_to) \div 2

\* the work of one course. With a session, max_workload is the bound method
\* s.get_workload_to, which is never None: only workload_from is tested, and
\* adding a None workload_to raises TypeError
work_of(c, s) ==
    IF s # Null
    THEN IF session_work[s].workload_from # Null
         THEN IF session_work[s].workload_to = Null THEN Raised("TypeError")
              ELSE Returned((IF truthy(session_work[s].duration)
                             THEN session_work[s].duration ELSE 0)
                            * mean_workload(session_work[s].workload_from,
                                            session_work[s].workload_to))
         ELSE Returned(0)
    ELSE IF course_work[c].workload_from # Null /\ course_work[c].workload_to # Null
         THEN Returned((IF truthy(course_work[c].duration) THEN course_work[c].duration ELSE 0)
                       * mean_workload(course_work[c].workload_from,
                                       course_work[c].workload_to))
         ELSE Returned(0)

\* the loop of whole_work over the pairs that are left
RECURSIVE whole_work_loop(_, _)
whole_work_loop(pairs, work) ==
    IF pairs = <<>> THEN Returned(work)
    ELSE LET w == work_of(Head(pairs)[1], Head(pairs)[2])
         IN  IF "raised" \in DOMAIN w THEN w
             ELSE IF w.value = 0 THEN Returned(0)
             ELSE whole_work_loop(Tail(pairs), work + w.value)

whole_work(self) ==
    whole_work_loop(courses_with_closest_sessions(self), 0)

\* int(round(float(work) / duration, 0)), rounding half to even
workload(self) ==
    LET work == whole_work(self)
    IN  IF "raised" \in DOMAIN work THEN work
        ELSE IF truthy(duration(self)) THEN Returned(quantize(work.value, duration(self)))
        ELSE Returned(0)

\* duration, workload_from and workload_to of a course: a missing or zero
\* duration, a missing workload, a mean workload of 2 and one of 0
CourseWork ==
    {[duration |-> Null, workload_from |-> 1, workload_to |-> 3],
     [duration |-> 0, workload_from |-> 1, workload_to |-> 3],
     [duration |-> 2, workload_from |-> Null, workload_to |-> 3],
     [duration |-> 2, workload_from |-> 1, workload_to |-> Null],
     [duration |-> 2, workload_from |-> 1, workload_to |-> 4],
     [duration |-> 3, workload_from |-> 0, workload_to |-> 1]}

\* what get_duration(), get_workload_from() and get_workload_to() of a
\* session return
SessionWork ==
    {[duration |-> Null, workload_from |-> 1, workload_to |-> 3],
     [duration |-> 0, workload_from |-> 1, workload_to |-> 3],
     [duration |-> 3, workload_from |-> Null, workload_to |-> 2],
     [duration |-> 3, workload_from |-> 2, workload_to |-> Null],
     [duration |-> 3, workload_from |-> 2, workload_to |-> 3]}

InitWork ==
    /\ promo = PromoCode([product_type |-> PRODUCTS[2], course |-> Null, edmodule |-> 1],
                         0, 0, 0, TRUE, Null, Null)
    /\ today = 0
    /\ now = 1
    /\ \E courses \in InjectiveSeqs(CourseIds) :
            module = [id |-> 1, courses |-> courses, discount |-> 0]
    /\ course_ext \in [CourseIds -> ExtendedParams]
    /\ sessions = [s \in SessionIds |->
                    [course |-> s, datetime_starts |-> Null,
                     datetime_start_enroll |-> Null, datetime_end_enroll |-> Null,
                     datetime_ends |-> Null, verified_price |-> Null, verified_open |-> FALSE]]
    /\ next_session = [c \in CourseIds |-> Null]
    /\ participants = [s \in SessionIds |-> "none"]
    /\ row_order = [s \in SessionIds |-> s]
    /\ course_rows = [c \in AllCourseIds |-> [status |-> "hidden", categories |-> {}]]
    /\ edmodules = [m \in ModuleIds |-> [status |-> "hidden", courses |-> {}]]
    /\ course_work \in [CourseIds -> CourseWork]
    /\ session_work \in [SessionIds -> SessionWork]
    \* session c is the one session of course c
    /\ closest_session \in {q \in [CourseIds -> SessionIds \cup {Null}] :
                                \A c \in CourseIds : q[c] \in {Null, c}}
    /\ NoRows
    /\ NoRuns
    /\ result = NoCall

Duration ==
    /\ result' = [op |-> "duration", ret |-> duration(module)]
    /\ UNCHANGED <<promoVars, catalogVars, rowVars, taskVars>>

WholeWork ==
    /\ result' = [op |-> "whole_work", ret |-> whole_work(module)]
    /\ UNCHANGED <<promoVars, catalogVars, rowVars, taskVars>>

Workload ==
    /\ result' = [op |-> "workload", ret |-> workload(module)]
    /\ UNCHANGED <<promoVars, catalogVars, rowVars, taskVars>>

NextWork ==
    \/ Duration
    \/ WholeWork
    \/ Workload

SpecWork == InitWork /\ [][NextWork]_vars

\* the sum of f over the set S
RECURSIVE SumOver(_, _)
SumOver(S, f) ==
    IF S = {} THEN 0
    ELSE LET x == CHOOSE y \in S : TRUE IN f[x] + SumOver(S \ {x}, f)

\* the module's courses that are not projects
NotProjects == {c \in Range(module.courses) : course_ext[c] # "project"}

\* the duration a course counts with: its closest session's, or its own
CountedDuration ==
    [c \in CourseIds |-> IF closest_session[c] # Null
                         THEN session_work[closest_session[c]].duration
                         ELSE course_work[c].duration]

\* C12: duration is the sum over the module's non-project courses of the
\* closest session's duration, or of the course's own without a closest
\* session, and 0 when one of them has no or a zero duration or when there
\* is no such course
C12_Duration ==
    result.op = "duration" =>
        result.ret = IF \E c \in NotProjects : CountedDuration[c] \in {Null, 0}
                     THEN 0
                     ELSE SumOver(NotProjects, CountedDuration)

\* two courses counted, one by its session and one by itself
C12_Witness ==
    /\ result.op = "duration"
    /\ Cardinality(NotProjects) = 2
    /\ \E c, d \in NotProjects : closest_session[c] # Null /\ closest_session[d] = Null
    /\ result.ret = 5

\* the work a course counts with, from its closest session or from itself:
\* duration * int((workload_from + workload_to) / 2), and 0 when one of the
\* three is missing
CountedWork ==
    [c \in CourseIds |->
        LET from == IF closest_session[c] # Null
                    THEN session_work[closest_session[c]] ELSE course_work[c]
        IN  IF from.duration = Null \/ from.workload_from = Null \/ from.workload_to = Null
            THEN 0
            ELSE from.duration * ((from.workload_from + from.workload_to) \div 2)]

ExpectedWork ==
    IF \E c \in NotProjects : CountedWork[c] = 0
    THEN 0
    ELSE SumOver(NotProjects, CountedWork)

\* C15: whole_work is the sum over the module's non-project courses of
\* duration * int((workload_from + workload_to) / 2), from the closest
\* session or else from the course; it returns 0 without failing when one of
\* them has a missing workload_from, workload_to or duration or a zero
\* product, and workload is then 0 too
C15_WholeWork ==
    /\ result.op = "whole_work" => result.ret = Returned(ExpectedWork)
    /\ (result.op = "workload" /\ ExpectedWork = 0) => result.ret = Returned(0)

====
